---- MODULE Spec2Model ----
(***************************************************************************)
(* BinarySearchTree<T> of src/src/lib.rs: a binary search tree of          *)
(* individually heap-allocated nodes linked by raw parent/left/right       *)
(* pointers.  The heap is modelled explicitly (addresses, contents, the    *)
(* set of allocated addresses), because the unsafe code frees nodes by     *)
(* hand and may keep pointers to freed nodes.                              *)
(*                                                                         *)
(* Undefined behaviour.  A freed node's storage keeps its last contents    *)
(* until the allocator hands the address out again (Box::new may return    *)
(* any address that is not allocated, a just-freed one included).  An      *)
(* operation that dereferences or frees an address that is not allocated   *)
(* either goes on with what the storage holds, or faults (the process      *)
(* ends).  A descent that revisits a node never ends; it is a fault.       *)
(***************************************************************************)
EXTENDS Integers, FiniteSets, Sequences, TLC

\* Bounds of the model.
MaxNodes == 3      \* addresses of the heap
MaxKey == 3        \* keys are 1..MaxKey
MaxOps == 4        \* insert and delete calls in a run

NULL == 0          \* Option::None of a node pointer
Addr == 1 .. MaxNodes
Keys == 1 .. MaxKey
Ptr == Addr \cup {NULL}

VARIABLES
    root,        \* BinarySearchTree.root
    mem,         \* heap contents: address -> Node (stale once freed)
    live,        \* allocated addresses
    nalloc,      \* allocations performed (Box::new)
    nfree,       \* deallocations performed (drop of a Box)
    doubleFree,  \* some deallocation hit an address that was not allocated
    uaf,         \* some operation dereferenced an address that was not allocated
    crashed,     \* the process faulted
    dropped,     \* the tree has been dropped
    op,          \* the last call: [name, key]
    ret,         \* the last call's result: [some, val]
    ins,         \* key -> number of insert(key) calls
    del,         \* key -> number of delete(key) calls
    stored,      \* key -> copies inserted and not yet deleted
    phase        \* "ins": distinct inserts only; "del": then deletes of stored keys; "other"

vars == <<root, mem, live, nalloc, nfree, doubleFree, uaf, crashed, dropped,
          op, ret, ins, del, stored, phase>>

tree == <<root, mem, live>>
heapCounts == <<nalloc, nfree, doubleFree>>
ghost == <<ins, del, stored, phase>>

----------------------------------------------------------------------------
\* struct Node<T> and Node::new

Node == [item : Keys \cup {0}, parent : Ptr, left : Ptr, right : Ptr]

NodeNew(item) == [item |-> item, parent |-> NULL, left |-> NULL, right |-> NULL]

None == [some |-> FALSE, val |-> 0]
Some(v) == [some |-> TRUE, val |-> v]

----------------------------------------------------------------------------
\* search_node: BST descent.  derefs = the nodes it read; loops = it revisits
\* a node (the recursion never returns).

RECURSIVE search_node(_, _, _, _, _)
search_node(m, l, item, called_once, seen) ==
    IF l = NULL
    THEN [is_root |-> called_once, node |-> NULL, derefs |-> seen, loops |-> FALSE]
    ELSE IF l \in seen
    THEN [is_root |-> FALSE, node |-> NULL, derefs |-> seen, loops |-> TRUE]
    ELSE IF item = m[l].item
    THEN [is_root |-> called_once, node |-> l, derefs |-> seen \cup {l}, loops |-> FALSE]
    ELSE IF item < m[l].item
    THEN search_node(m, m[l].left, item, FALSE, seen \cup {l})
    ELSE search_node(m, m[l].right, item, FALSE, seen \cup {l})

\* insert_node, the descent: from node n (the target of *l) to the node and
\* side whose child slot is absent.
RECURSIVE insert_node(_, _, _, _)
insert_node(m, n, item, seen) ==
    IF n \in seen
    THEN [owner |-> NULL, side |-> "left", derefs |-> seen, loops |-> TRUE]
    ELSE LET side == IF item < m[n].item THEN "left" ELSE "right"
         IN  IF m[n][side] = NULL
             THEN [owner |-> n, side |-> side, derefs |-> seen \cup {n}, loops |-> FALSE]
             ELSE insert_node(m, m[n][side], item, seen \cup {n})

\* insert_node, the base case: the new node is written at address a with its
\* parent set, then the slot *l is written.
insert_leaf(m, owner, side, item, a) ==
    LET m1 == [m EXCEPT ![a] = [NodeNew(item) EXCEPT !.parent = owner]]
    IN  [m1 EXCEPT ![owner][side] = a]

\* BinarySearchTree::insert with the allocator returning address a.
insert(r, m, value, a) ==
    IF r # NULL
    THEN LET d == insert_node(m, r, value, {})
         IN  [root |-> r,
              mem |-> IF d.loops THEN m ELSE insert_leaf(m, d.owner, d.side, value, a),
              derefs |-> d.derefs, loops |-> d.loops]
    ELSE [root |-> a, mem |-> [m EXCEPT ![a] = NodeNew(value)],
          derefs |-> {}, loops |-> FALSE]

----------------------------------------------------------------------------
\* find_minimum / find_maximum: follow left (right) links to the end.

RECURSIVE find_minimum(_, _, _)
find_minimum(m, t, seen) ==
    IF t = NULL THEN [node |-> NULL, derefs |-> seen, loops |-> FALSE]
    ELSE IF t \in seen THEN [node |-> NULL, derefs |-> seen, loops |-> TRUE]
    ELSE IF m[t].left = NULL THEN [node |-> t, derefs |-> seen \cup {t}, loops |-> FALSE]
    ELSE find_minimum(m, m[t].left, seen \cup {t})

RECURSIVE find_maximum(_, _, _)
find_maximum(m, t, seen) ==
    IF t = NULL THEN [node |-> NULL, derefs |-> seen, loops |-> FALSE]
    ELSE IF t \in seen THEN [node |-> NULL, derefs |-> seen, loops |-> TRUE]
    ELSE IF m[t].right = NULL THEN [node |-> t, derefs |-> seen \cup {t}, loops |-> FALSE]
    ELSE find_maximum(m, m[t].right, seen \cup {t})

----------------------------------------------------------------------------
\* delete_node: the three cases.  freed = the address whose Box is dropped.

\* One child: the child's links and item are copied into the node, the child
\* is freed.
splice_child(m, n, c) ==
    LET m1 == [m EXCEPT ![n].right = m[c].right]
        m2 == [m1 EXCEPT ![n].left = m1[c].left]
    IN  [m2 EXCEPT ![n].item = m2[c].item]

\* Two children: the walk to the leftmost descendant of the right child.
RECURSIVE next_biggest_walk(_, _, _)
next_biggest_walk(m, nb, seen) ==
    IF nb \in seen THEN [node |-> NULL, derefs |-> seen, loops |-> TRUE]
    ELSE IF m[nb].left = NULL
    THEN [node |-> nb, derefs |-> seen \cup {nb}, loops |-> FALSE]
    ELSE next_biggest_walk(m, m[nb].left, seen \cup {nb})

next_biggest(m, right) == next_biggest_walk(m, right, {})

\* Two children: the successor's parent's left slot is cleared, then the
\* successor's links and item are copied into the node.
replace_with_next(m, n, nb) ==
    LET p  == m[nb].parent
        m0 == IF p # NULL THEN [m EXCEPT ![p].left = NULL] ELSE m
        m1 == [m0 EXCEPT ![n].left = m0[nb].left]
        m2 == [m1 EXCEPT ![n].right = m1[nb].right]
    IN  [m2 EXCEPT ![n].item = m2[nb].item]

delete_node(m, n) ==
    LET l == m[n].left
        r == m[n].right
    IN  IF l = NULL /\ r = NULL
        THEN [mem |-> m, freed |-> n, was_leaf |-> TRUE, derefs |-> {n}, loops |-> FALSE]
        ELSE IF l = NULL
        THEN [mem |-> splice_child(m, n, r), freed |-> r, was_leaf |-> FALSE,
              derefs |-> {n, r}, loops |-> FALSE]
        ELSE IF r = NULL
        THEN [mem |-> splice_child(m, n, l), freed |-> l, was_leaf |-> FALSE,
              derefs |-> {n, l}, loops |-> FALSE]
        ELSE LET w == next_biggest(m, r)
             IN  IF w.loops
                 THEN [mem |-> m, freed |-> NULL, was_leaf |-> FALSE,
                       derefs |-> {n} \cup w.derefs, loops |-> TRUE]
                 ELSE [mem |-> replace_with_next(m, n, w.node), freed |-> w.node,
                       was_leaf |-> FALSE,
                       derefs |-> ({n} \cup w.derefs \cup {m[w.node].parent}) \ {NULL},
                       loops |-> FALSE]

\* BinarySearchTree::delete
delete(r, m, item) ==
    IF r = NULL
    THEN [root |-> r, mem |-> m, freed |-> NULL, derefs |-> {}, loops |-> FALSE]
    ELSE LET s == search_node(m, r, item, TRUE, {})
         IN  IF s.loops \/ s.node = NULL
             THEN [root |-> r, mem |-> m, freed |-> NULL, derefs |-> s.derefs,
                   loops |-> s.loops]
             ELSE LET d == delete_node(m, s.node)
                  IN  [root |-> IF s.is_root /\ d.was_leaf THEN NULL ELSE r,
                       mem |-> d.mem, freed |-> d.freed,
                       derefs |-> s.derefs \cup d.derefs, loops |-> d.loops]

----------------------------------------------------------------------------
\* dispose_node: post-order; frees = the addresses freed, in order.  path =
\* the nodes whose disposal is in progress (meeting one again never ends).

RECURSIVE dispose_node(_, _, _)
dispose_node(m, l, path) ==
    IF l \in path
    THEN [frees |-> <<>>, loops |-> TRUE]
    ELSE LET nothing == [frees |-> <<>>, loops |-> FALSE]
             L == IF m[l].left = NULL THEN nothing
                  ELSE dispose_node(m, m[l].left, path \cup {l})
             R == IF m[l].right = NULL THEN nothing
                  ELSE dispose_node(m, m[l].right, path \cup {l})
         IN  [frees |-> L.frees \o R.frees \o <<l>>, loops |-> L.loops \/ R.loops]

\* Drop for BinarySearchTree
drop(r, m) ==
    IF r = NULL THEN [frees |-> <<>>, loops |-> FALSE] ELSE dispose_node(m, r, {})

Range(s) == {s[i] : i \in DOMAIN s}

\* a deallocation of an address that is not allocated (any more)
BadFree(frees, lv) ==
    \E i \in DOMAIN frees :
        frees[i] \notin lv \/ \E j \in 1 .. (i - 1) : frees[j] = frees[i]

----------------------------------------------------------------------------
\* BinarySearchTree::get / contains / min / max

get(r, m, item) ==
    IF r = NULL THEN [node |-> NULL, derefs |-> {}, loops |-> FALSE]
    ELSE LET s == search_node(m, r, item, TRUE, {})
         IN  [node |-> s.node, derefs |-> s.derefs, loops |-> s.loops]

min(r, m) == find_minimum(m, r, {})

max(r, m) == find_maximum(m, r, {})

ItemOf(m, n) == IF n = NULL THEN None ELSE Some(m[n].item)

----------------------------------------------------------------------------
\* The calls counted so far and the bookkeeping of what should be stored.

Sum(f) == LET RECURSIVE S(_)
              S(D) == IF D = {} THEN 0
                      ELSE LET x == CHOOSE y \in D : TRUE IN f[x] + S(D \ {x})
          IN  S(DOMAIN f)

Running == ~crashed /\ ~dropped
MayMutate == Running /\ Sum(ins) + Sum(del) < MaxOps

Init ==
    /\ root = NULL
    /\ mem = [a \in Addr |-> NodeNew(0)]
    /\ live = {}
    /\ nalloc = 0
    /\ nfree = 0
    /\ doubleFree = FALSE
    /\ uaf = FALSE
    /\ crashed = FALSE
    /\ dropped = FALSE
    /\ op = [name |-> "new", key |-> 0]
    /\ ret = None
    /\ ins = [k \in Keys |-> 0]
    /\ del = [k \in Keys |-> 0]
    /\ stored = [k \in Keys |-> 0]
    /\ phase = "ins"

\* The call faults instead of returning.
Fault(name, key) ==
    /\ crashed' = TRUE
    /\ op' = [name |-> name, key |-> key]
    /\ ret' = None
    /\ UNCHANGED <<tree, heapCounts, dropped>>

\* The addresses Box::new may return: any address freed earlier, or an address
\* never handed out.  Addresses never handed out are alike (nothing refers to
\* them, nothing was written there), so the lowest stands for them all.
Fresh == {a \in Addr \ live : mem[a] = NodeNew(0)}

Allocatable ==
    ((Addr \ live) \ Fresh) \cup
        (IF Fresh = {} THEN {} ELSE {CHOOSE a \in Fresh : \A b \in Fresh : a <= b})

Insert(value) ==
    /\ MayMutate
    /\ ins' = [ins EXCEPT ![value] = @ + 1]
    /\ stored' = [stored EXCEPT ![value] = @ + 1]
    /\ phase' = IF phase = "ins" /\ stored[value] = 0 THEN "ins" ELSE "other"
    /\ del' = del
    /\ \E a \in Allocatable :
         LET res == insert(root, mem, value, a)
             bad == \E x \in res.derefs : x \notin live
         IN  /\ uaf' = (uaf \/ bad)
             /\ \/ /\ ~res.loops
                   /\ root' = res.root
                   /\ mem' = res.mem
                   /\ live' = live \cup {a}
                   /\ nalloc' = nalloc + 1
                   /\ op' = [name |-> "insert", key |-> value]
                   /\ ret' = None
                   /\ UNCHANGED <<nfree, doubleFree, crashed, dropped>>
                \/ /\ bad \/ res.loops
                   /\ Fault("insert", value)

Delete(item) ==
    /\ MayMutate
    /\ del' = [del EXCEPT ![item] = @ + 1]
    /\ stored' = [stored EXCEPT ![item] = IF @ > 0 THEN @ - 1 ELSE 0]
    /\ phase' = IF phase \in {"ins", "del"} /\ stored[item] = 1 THEN "del" ELSE "other"
    /\ ins' = ins
    /\ LET res == delete(root, mem, item)
           bad == \E x \in res.derefs : x \notin live
           badfree == res.freed # NULL /\ res.freed \notin live
       IN  /\ uaf' = (uaf \/ bad)
           /\ \/ /\ ~res.loops
                 /\ root' = res.root
                 /\ mem' = res.mem
                 /\ live' = live \ {res.freed}
                 /\ nfree' = IF res.freed # NULL THEN nfree + 1 ELSE nfree
                 /\ doubleFree' = (doubleFree \/ badfree)
                 /\ op' = [name |-> "delete", key |-> item]
                 /\ ret' = None
                 /\ UNCHANGED <<nalloc, crashed, dropped>>
              \/ /\ bad \/ badfree \/ res.loops
                 /\ Fault("delete", item)

\* a lookup that re-roots the tree at the node it found
LookupRerooting(name, key, res, value) ==
    LET bad == \E x \in res.derefs : x \notin live
    IN  /\ Running
        /\ uaf' = (uaf \/ bad)
        /\ UNCHANGED ghost
        /\ \/ /\ ~res.loops
              /\ op' = [name |-> name, key |-> key]
              /\ ret' = value
              /\ root' = IF res.node # NULL THEN res.node ELSE root
              /\ UNCHANGED <<mem, live, heapCounts, crashed, dropped>>
           \/ /\ bad \/ res.loops
              /\ Fault(name, key)

Lookup(name, key, res, value) ==
    LET bad == \E x \in res.derefs : x \notin live
    IN  /\ Running
        /\ uaf' = (uaf \/ bad)
        /\ UNCHANGED ghost
        /\ \/ /\ ~res.loops
              /\ op' = [name |-> name, key |-> key]
              /\ ret' = value
              /\ UNCHANGED <<tree, heapCounts, crashed, dropped>>
           \/ /\ bad \/ res.loops
              /\ Fault(name, key)

Get(item) ==
    LET res == get(root, mem, item) IN Lookup("get", item, res, ItemOf(mem, res.node))

Contains(item) ==
    LET res == get(root, mem, item)
    IN  Lookup("contains", item, res, [some |-> res.node # NULL, val |-> 0])

Min == LET res == min(root, mem) IN Lookup("min", 0, res, ItemOf(mem, res.node))

Max == LET res == max(root, mem) IN Lookup("max", 0, res, ItemOf(mem, res.node))

Drop ==
    /\ Running
    /\ UNCHANGED ghost
    /\ LET res == drop(root, mem)
           bad == BadFree(res.frees, live)
       IN  /\ uaf' = (uaf \/ bad)
           /\ \/ /\ ~res.loops
                 /\ dropped' = TRUE
                 /\ live' = live \ Range(res.frees)
                 /\ nfree' = nfree + Len(res.frees)
                 /\ doubleFree' = (doubleFree \/ bad)
                 /\ op' = [name |-> "drop", key |-> 0]
                 /\ ret' = None
                 /\ UNCHANGED <<root, mem, nalloc, crashed>>
              \/ /\ bad \/ res.loops
                 /\ Fault("drop", 0)

Next ==
    \/ \E k \in Keys : Insert(k)
    \/ \E k \in Keys : Delete(k)
    \/ \E k \in Keys : Get(k)
    \/ \E k \in Keys : Contains(k)
    \/ Min
    \/ Max
    \/ Drop

Spec == Init /\ [][Next]_vars

\* The runs in which every call so far had defined behaviour: none has
\* dereferenced or freed an address that was not allocated, none has faulted.
\* Every behaviour of SpecDefined is a behaviour of Spec.
DefinedStep == ~uaf' /\ ~doubleFree' /\ ~crashed'

NextDefined ==
    \/ \E k \in Keys : Insert(k) /\ DefinedStep
    \/ \E k \in Keys : Delete(k) /\ DefinedStep
    \/ \E k \in Keys : Get(k) /\ DefinedStep
    \/ \E k \in Keys : Contains(k) /\ DefinedStep
    \/ Min /\ DefinedStep
    \/ Max /\ DefinedStep
    \/ Drop /\ DefinedStep

SpecDefined == Init /\ [][NextDefined]_vars

TypeOK ==
    /\ root \in Ptr
    /\ mem \in [Addr -> Node]
    /\ live \subseteq Addr
    /\ nalloc \in Nat /\ nfree \in Nat
    /\ doubleFree \in BOOLEAN /\ uaf \in BOOLEAN
    /\ crashed \in BOOLEAN /\ dropped \in BOOLEAN
    /\ phase \in {"ins", "del", "other"}

----------------------------------------------------------------------------
\* The tree as a graph: what is linked from root, and the keys it stores.

Children(m, S) == {m[a].left : a \in S} \cup {m[a].right : a \in S}

RECURSIVE Closure(_, _)
Closure(m, S) ==
    LET T == (S \cup Children(m, S)) \ {NULL}
    IN  IF T = S THEN S ELSE Closure(m, T)

\* the nodes reachable from root via left/right edges
Reachable == Closure(mem, {root} \ {NULL})

\* the nodes of the subtree hanging from child pointer c
Subtree(c) == Closure(mem, {c} \ {NULL})

\* the stored copies of key k: the allocated nodes linked from root holding k
Copies(k) == {a \in Reachable \cap live : mem[a].item = k}

KeyCount(k) == Cardinality(Copies(k))

Holds(k) == Copies(k) # {}

JustDid(names) == op.name \in names

----------------------------------------------------------------------------
\* C1: after every insert or delete the allocated nodes are exactly the nodes
\* reachable from root via left/right edges: root and child slots never refer
\* to a freed node, and no allocated node is unreachable.
C1_ReachabilityIsLiveness ==
    JustDid({"insert", "delete"}) =>
        /\ ~crashed
        /\ Reachable = live
        /\ root \in live \cup {NULL}
        /\ \A a \in live : mem[a].left \in live \cup {NULL}
                           /\ mem[a].right \in live \cup {NULL}

\* C2: after every public operation, for every node n reachable from root the
\* keys of n.left's subtree are less than n's key and the keys of n.right's
\* subtree are greater than or equal to it.
C2_BstOrdering ==
    ~dropped =>
        /\ ~crashed
        /\ \A n \in Reachable :
             /\ \A x \in Subtree(mem[n].left) : mem[x].item < mem[n].item
             /\ \A x \in Subtree(mem[n].right) : mem[x].item >= mem[n].item

\* C3: delete(k) on a tree holding a key equal to k removes exactly one
\* occurrence: afterwards the tree stores one copy of k less and the same
\* number of copies of every other key.
C3_DeleteRemovesExactlyOne ==
    [][(op'.name = "delete" /\ (Sum(del))' = Sum(del) + 1 /\ Holds(op'.key)) =>
          /\ ~crashed'
          /\ \A k \in Keys :
               KeyCount(k)' = KeyCount(k) - (IF k = op'.key THEN 1 ELSE 0)]_vars

\* the keys that should be stored: inserted and not yet deleted
StoredKeys == {k \in Keys : stored[k] > 0}

SetMin(S) == CHOOSE x \in S : \A y \in S : x <= y
SetMax(S) == CHOOSE x \in S : \A y \in S : x >= y

\* C4: after any sequence of inserts and deletes, for every key k inserted
\* more times than deleted, contains(k) is true and get(k) returns a key
\* equal to k.
C4_RoundTrip ==
    (JustDid({"get", "contains"}) /\ ins[op.key] > del[op.key]) =>
        /\ ~crashed
        /\ ret.some
        /\ op.name = "get" => ret.val = op.key

\* C5: delete(k) on a tree holding no key equal to k is a no-op: root, every
\* node's key and links and the set of allocated nodes are unchanged (nothing
\* is freed, the call returns).
C5_DeleteAbsentIsNoOp ==
    [][(op'.name = "delete" /\ (Sum(del))' = Sum(del) + 1 /\ ~Holds(op'.key)) =>
          /\ ~crashed'
          /\ root' = root
          /\ live' = live
          /\ \A a \in live : mem'[a] = mem[a]
          /\ nfree' = nfree
          /\ \A k \in Keys : get(root', mem', k).node = get(root, mem, k).node]_vars

\* C6: no leak and no double free: once the tree is dropped every allocation
\* has been freed exactly once (as many deallocations as allocations, none of
\* an address that was not allocated, nothing left allocated).
C6_NoLeakNoDoubleFree ==
    (dropped \/ JustDid({"drop"})) =>
        /\ ~crashed
        /\ ~doubleFree
        /\ nfree = nalloc
        /\ live = {}

\* C7: after every public operation, every reachable node's children name it
\* as their parent, and the root node has no parent.
C7_ParentConsistency ==
    ~dropped =>
        /\ ~crashed
        /\ \A n \in Reachable :
             /\ mem[n].left # NULL => mem[mem[n].left].parent = n
             /\ mem[n].right # NULL => mem[mem[n].right].parent = n
        /\ root # NULL => mem[root].parent = NULL

\* C8: min() returns the smallest and max() the largest key inserted and not
\* yet deleted; both return absent exactly when no key is stored.
C8_MinMax ==
    JustDid({"min", "max"}) =>
        /\ ~crashed
        /\ ret.some <=> StoredKeys # {}
        /\ (ret.some /\ op.name = "min") => ret.val = SetMin(StoredKeys)
        /\ (ret.some /\ op.name = "max") => ret.val = SetMax(StoredKeys)

\* the node whose absent child slot the descent for key ends at: left when
\* key < n.key, right otherwise
RECURSIVE DescentEnd(_, _, _)
DescentEnd(n, key, fuel) ==
    LET side == IF key < mem[n].item THEN "left" ELSE "right"
    IN  IF mem[n][side] = NULL \/ fuel = 0 THEN n
        ELSE DescentEnd(mem[n][side], key, fuel - 1)

SideFor(n, key) == IF key < mem[n].item THEN "left" ELSE "right"

\* C9: insert(key) adds exactly one new leaf holding key: the root without
\* parent on an empty tree, otherwise in the absent slot the descent reaches,
\* with the last visited node as parent; all other nodes keep key and links,
\* and one more node is reachable.
C9_InsertAddsOneLeaf ==
    [][(op'.name = "insert" /\ (Sum(ins))' = Sum(ins) + 1) =>
          /\ ~crashed'
          /\ \E a \in Addr \ live :
               /\ live' = live \cup {a}
               /\ mem'[a].item = op'.key
               /\ mem'[a].left = NULL /\ mem'[a].right = NULL
               /\ IF root = NULL
                  THEN /\ root' = a
                       /\ mem'[a].parent = NULL
                  ELSE LET n == DescentEnd(root, op'.key, MaxNodes)
                           side == SideFor(n, op'.key)
                       IN  /\ root' = root
                           /\ n \in live
                           /\ mem[n][side] = NULL
                           /\ mem'[a].parent = n
                           /\ mem'[n] = [mem[n] EXCEPT ![side] = a]
                           /\ \A x \in live \ {n} : mem'[x] = mem[x]
          /\ Cardinality(Reachable') = Cardinality(Reachable) + 1]_vars

\* C10: after inserting a set of keys and deleting each of them, in any
\* order, the tree is empty (root absent, min() and max() absent); and delete
\* clears root only when the deleted node was the root and had no children.
C10_EmptyAfterDeletingAll ==
    /\ []((phase = "del" /\ StoredKeys = {}) =>
            /\ ~crashed
            /\ root = NULL
            /\ min(root, mem).node = NULL
            /\ max(root, mem).node = NULL)
    /\ [][(op'.name = "delete" /\ root # NULL /\ root' = NULL) =>
            /\ mem[root].item = op'.key
            /\ mem[root].left = NULL
            /\ mem[root].right = NULL]_vars

\* C11: get(k) returns absent and contains(k) false whenever no stored key
\* equals k: k was never inserted, or every inserted copy has been deleted
\* (also right after delete(k) removed the only copy, a non-root leaf).
C11_AbsentKeyNotFound ==
    (JustDid({"get", "contains"}) /\ stored[op.key] = 0) =>
        /\ ~crashed
        /\ ~ret.some

\* the child slots of allocated nodes that refer to node a
OwningEdges(a) == {e \in live \X {"left", "right"} : mem[e[1]][e[2]] = a}

\* C12: single ownership: after any sequence of inserts and deletes every
\* allocated node other than the root is the target of exactly one left/right
\* edge, the root of none, and no node is linked below itself.
C12_SingleOwnership ==
    (~dropped /\ ~JustDid({"drop"})) =>
        /\ ~crashed
        /\ \A a \in live :
             /\ Cardinality(OwningEdges(a)) = (IF a = root THEN 0 ELSE 1)
             /\ a \notin Subtree(mem[a].left) \cup Subtree(mem[a].right)

\* C13: delete(k) twice in a row on a tree holding exactly one k (k inserted
\* once, the call before was its only delete): the second call changes
\* nothing, frees nothing and returns.
C13_SecondDeleteIsNoOp ==
    [][(/\ op.name = "delete" /\ op'.name = "delete" /\ op'.key = op.key
        /\ (Sum(del))' = Sum(del) + 1
        /\ ins[op.key] = 1 /\ del[op.key] = 1) =>
          /\ ~crashed'
          /\ root' = root /\ mem' = mem /\ live' = live
          /\ nfree' = nfree
          /\ ~doubleFree']_vars

\* the node delete(k) matches: the first one the descent finds holding k
Matched(k) == get(root, mem, k).node

ChildrenOf(n) == {mem[n].left, mem[n].right} \ {NULL}

\* the call being made is delete(k) and it matches a node with nc children
DeleteMatches(nc) ==
    /\ op'.name = "delete"
    /\ (Sum(del))' = Sum(del) + 1
    /\ Matched(op'.key) # NULL
    /\ Cardinality(ChildrenOf(Matched(op'.key))) = nc

\* C14: leaf case of delete: the matched node is freed and the slot that
\* referred to it is cleared: the parent's left or right slot when it is not
\* the root, the tree's root when it is.
C14_LeafCase ==
    [][DeleteMatches(0) =>
          LET n == Matched(op'.key)
          IN  /\ ~crashed'
              /\ live' = live \ {n}
              /\ nfree' = nfree + 1
              /\ IF n = root
                 THEN root' = NULL
                 ELSE /\ root' = root
                      /\ \A e \in OwningEdges(n) : mem'[e[1]][e[2]] = NULL]_vars

\* the in-order successor of a node with right child r
Successor(r) == next_biggest(mem, r).node

\* C15: two-children case of delete: the successor (leftmost descendant of
\* the right child) is detached from its parent's slot, where its right
\* subtree takes its place; its key is copied into the matched node; it alone
\* is freed; the matched node's left subtree and the rest of its right
\* subtree stay linked, also when the successor is the right child itself.
C15_TwoChildrenCase ==
    [][DeleteMatches(2) =>
          LET n == Matched(op'.key)
              s == Successor(mem[n].right)
          IN  /\ ~crashed'
              /\ s # NULL
              /\ live' = live \ {s}
              /\ nfree' = nfree + 1
              /\ root' = root
              /\ mem'[n].item = mem[s].item
              /\ mem'[n].left = mem[n].left
              /\ IF s = mem[n].right
                 THEN mem'[n].right = mem[s].right
                 ELSE /\ mem'[n].right = mem[n].right
                      /\ \A e \in OwningEdges(s) : mem'[e[1]][e[2]] = mem[s].right
              /\ \A x \in live \ {n, s} :
                   /\ mem'[x].item = mem[x].item
                   /\ mem'[x].right = mem[x].right
                   /\ <<x, "left">> \notin OwningEdges(s) => mem'[x].left = mem[x].left]_vars

\* C16: one-child case of delete: the matched node stays where it is under
\* its own parent, takes the only child's key and the child's left and right
\* links; the child alone is freed; the transplanted grandchildren's parent
\* link then points at the surviving node.
C16_OneChildCase ==
    [][DeleteMatches(1) =>
          LET n == Matched(op'.key)
              c == CHOOSE x \in ChildrenOf(n) : TRUE
          IN  /\ ~crashed'
              /\ live' = live \ {c}
              /\ nfree' = nfree + 1
              /\ root' = root
              /\ mem'[n].parent = mem[n].parent
              /\ \A e \in OwningEdges(n) : mem'[e[1]][e[2]] = n
              /\ mem'[n].item = mem[c].item
              /\ mem'[n].left = mem[c].left
              /\ mem'[n].right = mem[c].right
              /\ \A g \in ChildrenOf(c) : mem'[g].parent = n]_vars

\* C17: no use after free: no insert, delete, get, contains, min or max call
\* reads or writes a field of a node that an earlier delete has freed.
C17_NoUseAfterFree ==
    ~JustDid({"drop"}) => ~uaf

LookupNames == {"get", "contains", "min", "max"}

\* C18: lookups are read-only: get, contains, min and max leave root, every
\* node's key and links and the set of allocated nodes as they were, on any
\* tree, the empty one included.
C18_LookupsReadOnly ==
    [][op'.name \in LookupNames =>
          /\ root' = root
          /\ mem' = mem
          /\ live' = live
          /\ nalloc' = nalloc /\ nfree' = nfree]_vars

\* a lookup has returned a key found in a tree of at least two nodes, below
\* the root
C18_Witness ==
    /\ JustDid({"get"})
    /\ ~crashed
    /\ ret.some
    /\ Cardinality(live) >= 2
    /\ root # NULL /\ ret.val # mem[root].item

====
